---------------------------- MODULE Spec2Model ----------------------------
(***************************************************************************)
(* SwarLoop ML service (src/ml-service/main.py): the mood fusion, the      *)
(* audio-to-emotion mapping, the mood score, the catalog scoring and       *)
(* ranking, and the three request handlers over the module globals.        *)
(*                                                                         *)
(* Python floats are modelled as exact rationals <<n, d>> in lowest terms  *)
(* with d > 0; rounding error of IEEE doubles is not modelled.  A Python   *)
(* dict is a sequence of <<key, value>> pairs in insertion order, keys     *)
(* distinct.  An Optional is <<>> (None) or <<x>>.                         *)
(***************************************************************************)
EXTENDS Integers, Sequences, FiniteSets, TLC

VARIABLES
    sentiment_pipeline,   \* module global, line 40
    emotion_pipeline,     \* module global, line 41
    music_features,       \* module global, line 42
    music_embeddings,     \* module global, line 43
    startup,              \* position of startup_event
    pc,                   \* per client: "idle", "called", "done"
    request,              \* per client: the request in flight
    response,             \* per client: the response the handler produced
    call,                 \* a direct call of one function: its name and arguments
    ret                   \* Optional: what the direct call returned

vars == <<sentiment_pipeline, emotion_pipeline, music_features, music_embeddings,
          startup, pc, request, response, call, ret>>

globals == <<sentiment_pipeline, emotion_pipeline, music_features, music_embeddings>>

-----------------------------------------------------------------------------
(* Optional values *)

None == <<>>

Some(x) == <<x>>

Val(o) == o[1]

-----------------------------------------------------------------------------
(* Float arithmetic, exact *)

Abs(x) == IF x < 0 THEN -x ELSE x

RECURSIVE GCD(_, _)
GCD(a, b) == IF b = 0 THEN a ELSE GCD(b, a % b)

Rat(n, d) ==
    LET g == GCD(Abs(n), Abs(d))
        s == IF d < 0 THEN -1 ELSE 1
    IN  <<(s * n) \div g, (s * d) \div g>>

Zero == Rat(0, 1)

One == Rat(1, 1)

Add(a, b) == Rat(a[1] * b[2] + b[1] * a[2], a[2] * b[2])

Sub(a, b) == Rat(a[1] * b[2] - b[1] * a[2], a[2] * b[2])

Mul(a, b) == Rat(a[1] * b[1], a[2] * b[2])

Div(a, b) == Rat(a[1] * b[2], a[2] * b[1])

Lt(a, b) == a[1] * b[2] < b[1] * a[2]

Gt(a, b) == Lt(b, a)

-----------------------------------------------------------------------------
(* dict operations *)

Keys(d) == [i \in 1..Len(d) |-> d[i][1]]

KeySet(d) == {d[i][1] : i \in 1..Len(d)}

HasKey(d, k) == k \in KeySet(d)

GetItem(d, k) == d[CHOOSE i \in 1..Len(d) : d[i][1] = k][2]

Get(d, k, default) == IF HasKey(d, k) THEN GetItem(d, k) ELSE default

SetItem(d, k, v) ==
    IF HasKey(d, k)
    THEN [i \in 1..Len(d) |-> IF d[i][1] = k THEN <<k, v>> ELSE d[i]]
    ELSE Append(d, <<k, v>>)

RECURSIVE SumValues(_)
SumValues(d) ==
    IF d = <<>> THEN Zero
    ELSE Add(SumValues(SubSeq(d, 1, Len(d) - 1)), d[Len(d)][2])

DivideValues(d, total) == [i \in 1..Len(d) |-> <<d[i][1], Div(d[i][2], total)>>]

\* max(d, key=d.get): the first key whose value no later key exceeds
RECURSIVE MaxFrom(_, _, _)
MaxFrom(d, i, best) ==
    IF i > Len(d) THEN best
    ELSE MaxFrom(d, i + 1, IF Gt(d[i][2], GetItem(d, best)) THEN d[i][1] ELSE best)

max_key(d) == MaxFrom(d, 2, d[1][1])

-----------------------------------------------------------------------------
(* combine_emotion_sentiment, lines 222-243 *)

BoostFactor == Rat(6, 5)

PositiveEmotions == <<"joy", "love", "optimism">>

NegativeEmotions == <<"sadness", "anger", "fear">>

Threshold == Rat(1, 2)

RECURSIVE Boost(_, _, _)
Boost(combined, names, i) ==
    IF i > Len(names) THEN combined
    ELSE Boost(IF HasKey(combined, names[i])
               THEN SetItem(combined, names[i],
                            Mul(GetItem(combined, names[i]), BoostFactor))
               ELSE combined,
               names, i + 1)

Normalize(d) ==
    LET total == SumValues(d)
    IN  IF Gt(total, Zero) THEN DivideValues(d, total) ELSE d

\* combine_emotion_sentiment with `if` for `elif`: both boosts can fire
combine_emotion_sentiment_both(emotions, sentiment) ==
    LET combined == emotions
        positive ==
            IF Gt(Get(sentiment, "POSITIVE", Zero), Threshold)
            THEN Boost(combined, PositiveEmotions, 1)
            ELSE combined
        adjusted ==
            IF Gt(Get(sentiment, "NEGATIVE", Zero), Threshold)
            THEN Boost(positive, NegativeEmotions, 1)
            ELSE positive
    IN  [emotions |-> emotions, result |-> Normalize(adjusted)]

\* The caller's dict after the call, and the dict returned.
combine_emotion_sentiment(emotions, sentiment) ==
    LET combined == emotions
        adjusted ==
            IF Gt(Get(sentiment, "POSITIVE", Zero), Threshold)
            THEN Boost(combined, PositiveEmotions, 1)
            ELSE IF Gt(Get(sentiment, "NEGATIVE", Zero), Threshold)
                 THEN Boost(combined, NegativeEmotions, 1)
                 ELSE combined
    IN  [emotions |-> emotions, result |-> Normalize(adjusted)]

-----------------------------------------------------------------------------
(* emotion_to_mood_score, lines 245-261 *)

emotion_scores ==
    << <<"joy", 9>>, <<"love", 8>>, <<"optimism", 7>>, <<"neutral", 5>>,
       <<"sadness", 3>>, <<"anger", 2>>, <<"fear", 2>>, <<"surprise", 6>> >>

PyMin(a, b) == IF Lt(b, a) THEN b ELSE a

PyMax(a, b) == IF Gt(b, a) THEN b ELSE a

\* emotion_to_mood_score with 0 as the base score of an unlisted label
emotion_to_mood_score_base0(emotion, confidence) ==
    LET base_score == Get(emotion_scores, emotion, 0)
        adjusted_score ==
            Add(Rat(base_score, 1), Mul(Sub(confidence, Rat(1, 2)), Rat(2, 1)))
    IN  PyMax(Rat(1, 1), PyMin(Rat(10, 1), adjusted_score))

emotion_to_mood_score(emotion, confidence) ==
    LET base_score == Get(emotion_scores, emotion, 5)
        adjusted_score ==
            Add(Rat(base_score, 1), Mul(Sub(confidence, Rat(1, 2)), Rat(2, 1)))
    IN  PyMax(Rat(1, 1), PyMin(Rat(10, 1), adjusted_score))

-----------------------------------------------------------------------------
(* audio_features_to_emotions, lines 263-286 *)

audio_features_to_emotions(features) ==
    LET valence == Get(features, "valence", Rat(1, 2))
        e1 == SetItem(<<>>, "joy", valence)
        e2 == SetItem(e1, "sadness", Sub(One, valence))
        energy == Get(features, "energy", Rat(1, 2))
        e3 == SetItem(e2, "anger", Mul(energy, Rat(7, 10)))
        e4 == SetItem(e3, "fear", Mul(energy, Rat(3, 10)))
        danceability == Get(features, "danceability", Rat(1, 2))
        e5 == SetItem(e4, "joy",
                      Add(GetItem(e4, "joy"), Mul(danceability, Rat(3, 10))))
    IN  Normalize(e5)

-----------------------------------------------------------------------------
(* What a call ends in: a value returned or an exception raised *)

Raise(exc) == [raised |-> TRUE, exc |-> exc]

Return(value) == [raised |-> FALSE, value |-> value]

HTTPException(status_code, detail) ==
    [type |-> "HTTPException", status_code |-> status_code, detail |-> detail]

\* max() of an empty dict
ValueError ==
    [type |-> "ValueError", status_code |-> 0,
     detail |-> "max() arg is an empty sequence"]

-----------------------------------------------------------------------------
(* get_mood_based_recommendations, lines 371-417 *)

emotion_to_mood_tags ==
    << <<"joy", <<"happy", "uplifting", "energetic">> >>,
       <<"sadness", <<"melancholic", "introspective", "calm">> >>,
       <<"anger", <<"calm", "peaceful", "meditative">> >>,
       <<"fear", <<"calm", "peaceful", "ambient">> >>,
       <<"love", <<"romantic", "warm", "uplifting">> >>,
       <<"surprise", <<"energetic", "uplifting", "happy">> >> >>

\* set(list)
ToSet(list) == {list[i] : i \in 1..Len(list)}

\* track_score with the sadness branch a copy of the joy branch
track_score_copied(track_data, dominant_emotion, matching_tags) ==
    LET s0 == Add(Zero, Mul(Rat(Cardinality(matching_tags), 1), Rat(1, 2)))
        audio_features == track_data.audio_features
    IN  IF dominant_emotion = "joy" \/ dominant_emotion = "sadness"
        THEN Add(Add(s0, Mul(GetItem(audio_features, "valence"), Rat(3, 10))),
                 Mul(GetItem(audio_features, "energy"), Rat(2, 10)))
        ELSE s0

\* lines 394-405: the score of one track for a dominant emotion
track_score(track_data, dominant_emotion, matching_tags) ==
    LET s0 == Add(Zero, Mul(Rat(Cardinality(matching_tags), 1), Rat(1, 2)))
        audio_features == track_data.audio_features
    IN  IF dominant_emotion = "joy"
        THEN Add(Add(s0, Mul(GetItem(audio_features, "valence"), Rat(3, 10))),
                 Mul(GetItem(audio_features, "energy"), Rat(2, 10)))
        ELSE IF dominant_emotion = "sadness"
             THEN Add(Add(s0, Mul(Sub(One, GetItem(audio_features, "valence")),
                                  Rat(3, 10))),
                      Mul(Sub(One, GetItem(audio_features, "energy")), Rat(2, 10)))
             ELSE s0

\* lines 393-413: one entry per track, in the dict's iteration order
scored_entry(item, dominant_emotion, target_mood_tags) ==
    LET track_id == item[1]
        track_data == item[2]
        matching_tags == ToSet(track_data.mood_tags) \cap ToSet(target_mood_tags)
    IN  [track_id |-> track_id,
         title |-> track_data.title,
         artist |-> track_data.artist,
         score |-> track_score(track_data, dominant_emotion, matching_tags),
         reason |-> [tags |-> matching_tags, emotion |-> dominant_emotion]]

\* list.sort(key=score, reverse=True): stable, equal scores keep their order
InsertByScore(sorted, x) ==
    LET k == Cardinality({i \in 1..Len(sorted) : ~Lt(sorted[i].score, x.score)})
    IN  SubSeq(sorted, 1, k) \o <<x>> \o SubSeq(sorted, k + 1, Len(sorted))

RECURSIVE sort_by_score(_)
sort_by_score(tracks) ==
    IF tracks = <<>> THEN <<>>
    ELSE InsertByScore(sort_by_score(SubSeq(tracks, 1, Len(tracks) - 1)),
                       tracks[Len(tracks)])

\* list[:limit]
SliceTo(list, limit) ==
    LET n == Len(list)
        stop == IF limit < 0
                THEN (IF n + limit < 0 THEN 0 ELSE n + limit)
                ELSE (IF limit > n THEN n ELSE limit)
    IN  SubSeq(list, 1, stop)

\* Either the list returned or the exception raised (max() of an empty dict).
get_mood_based_recommendations(mood_emotions, limit) ==
    IF music_features = None
    THEN Return(<<>>)
    ELSE IF mood_emotions = <<>>
         THEN Raise(ValueError)
         ELSE LET dominant_emotion == max_key(mood_emotions)
                  target_mood_tags ==
                      Get(emotion_to_mood_tags, dominant_emotion, <<"neutral">>)
                  features == Val(music_features)
                  scored_tracks ==
                      [i \in 1..Len(features) |->
                          scored_entry(features[i], dominant_emotion, target_mood_tags)]
              IN  Return(SliceTo(sort_by_score(scored_tracks), limit))

-----------------------------------------------------------------------------
(* The catalog: load_music_features and compute_music_embeddings *)

Track(id, title, artist, genre_tags, mood_tags, tempo, valence, energy, danceability) ==
    [id |-> id, title |-> title, artist |-> artist,
     genre_tags |-> genre_tags, mood_tags |-> mood_tags,
     audio_features |-> << <<"tempo", Rat(tempo, 1)>>, <<"valence", valence>>,
                           <<"energy", energy>>, <<"danceability", danceability>> >>]

sample_track_1 ==
    Track("sample_track_1", "Calm Song", "Artist 1", <<"ambient", "calm">>,
          <<"calm", "peaceful">>, 60, Rat(8, 10), Rat(3, 10), Rat(2, 10))

sample_track_2 ==
    Track("sample_track_2", "Energetic Song", "Artist 2", <<"electronic", "dance">>,
          <<"energetic", "happy">>, 128, Rat(9, 10), Rat(8, 10), Rat(9, 10))

\* the dict load_music_features returns in the demo
SampleCatalog ==
    << <<"sample_track_1", sample_track_1>>, <<"sample_track_2", sample_track_2>> >>

\* what load_music_features can return once it reads the database: the demo
\* dict, and the same rows inserted in the other order
Catalogs ==
    { SampleCatalog,
      << <<"sample_track_2", sample_track_2>>, <<"sample_track_1", sample_track_1>> >> }

compute_music_embeddings(features) ==
    << [i \in 1..Len(features) |->
           << Div(GetItem(features[i][2].audio_features, "tempo"), Rat(200, 1)),
              GetItem(features[i][2].audio_features, "valence"),
              GetItem(features[i][2].audio_features, "energy"),
              GetItem(features[i][2].audio_features, "danceability") >>],
       Keys(features) >>

-----------------------------------------------------------------------------
(* The classifiers: what the two pipelines return for a text *)

Texts == {"happy", "torn", "blank"}

emotion_results(text) ==
    CASE text = "happy" ->
             << <<"joy", Rat(4, 10)>>, <<"sadness", Rat(3, 10)>>,
                <<"anger", Rat(2, 10)>>, <<"fear", Rat(1, 10)>> >>
      [] text = "torn" ->
             << <<"sadness", Rat(1, 2)>>, <<"anger", Rat(1, 2)>> >>
      [] OTHER ->
             << <<"neutral", Zero>>, <<"anger", Zero>> >>

sentiment_results(text) ==
    CASE text = "happy" ->
             << <<"POSITIVE", Rat(7, 10)>>, <<"NEGATIVE", Rat(1, 10)>>,
                <<"NEUTRAL", Rat(2, 10)>> >>
      [] text = "torn" ->
             << <<"POSITIVE", Rat(1, 10)>>, <<"NEGATIVE", Rat(7, 10)>>,
                <<"NEUTRAL", Rat(2, 10)>> >>
      [] OTHER ->
             << <<"POSITIVE", Zero>>, <<"NEGATIVE", Zero>>, <<"NEUTRAL", One>> >>

-----------------------------------------------------------------------------
(* The handlers: the try body, then `except Exception` of each handler *)

\* `except Exception as e: raise HTTPException(status_code=500, detail=str(e))`;
\* HTTPException is an Exception, so one raised in the try body is caught too.
except_Exception(outcome) ==
    IF outcome.raised
    THEN Raise(HTTPException(500, outcome.exc.detail))
    ELSE outcome

\* what the framework sends for the handler's outcome
Respond(outcome) ==
    IF outcome.raised
    THEN [status |-> outcome.exc.status_code, detail |-> outcome.exc.detail]
    ELSE [status |-> 200, body |-> outcome.value]

\* lines 119-146
analyze_text_mood_body(req) ==
    IF emotion_pipeline = None \/ sentiment_pipeline = None
    THEN Raise(HTTPException(503, "ML models not loaded"))
    ELSE LET emotions == emotion_results(req.text)
             sentiment_scores == sentiment_results(req.text)
             combined_emotions ==
                 combine_emotion_sentiment(emotions, sentiment_scores).result
         IN  IF combined_emotions = <<>>
             THEN Raise(ValueError)
             ELSE LET dominant_emotion == max_key(combined_emotions)
                      confidence == GetItem(combined_emotions, dominant_emotion)
                  IN  Return([emotions |-> combined_emotions,
                              dominant_emotion |-> dominant_emotion,
                              confidence |-> confidence,
                              mood_score |->
                                  emotion_to_mood_score(dominant_emotion, confidence)])

\* lines 155-169
analyze_audio_mood_body(req) ==
    LET emotions == audio_features_to_emotions(req.audio_features)
        dominant_emotion == max_key(emotions)
    IN  Return([emotions |-> emotions,
                dominant_emotion |-> dominant_emotion,
                confidence |-> GetItem(emotions, dominant_emotion)])

\* lines 178-192
recommend_music_body(req) ==
    IF music_features = None \/ music_embeddings = None
    THEN Raise(HTTPException(503, "Music features not loaded"))
    ELSE LET recommendations ==
                 get_mood_based_recommendations(req.mood_emotions, req.limit)
         IN  IF recommendations.raised
             THEN recommendations
             ELSE Return([recommendations |-> recommendations.value,
                          model_version |-> "1.0.0",
                          reasoning |-> Keys(req.mood_emotions)])

-----------------------------------------------------------------------------
(* The service: startup, requests, handlers *)

NumClients == 2

MaxLimit == 2

Clients == 1..NumClients

\* the limits a request carries: `limit: int`, unvalidated
Limits == (-1)..MaxLimit

AudioInputs ==
    { << <<"valence", Rat(8, 10)>>, <<"energy", Rat(3, 10)>>,
         <<"danceability", Rat(2, 10)>> >>,
      << <<"valence", Rat(7, 10)>>, <<"energy", One>>, <<"danceability", Zero>> >>,
      << <<"energy", Rat(-2, 1)>>, <<"danceability", Zero>> >> }

MoodInputs ==
    { << <<"joy", Rat(6, 10)>>, <<"sadness", Rat(4, 10)>> >>,
      << <<"love", Rat(1, 2)>>, <<"anger", Rat(1, 2)>> >>,
      <<>> }

NoRequest == [op |-> "none"]

NoResponse == [status |-> 0]

NoCall == [fn |-> "none"]

Init ==
    /\ sentiment_pipeline = None
    /\ emotion_pipeline = None
    /\ music_features = None
    /\ music_embeddings = None
    /\ startup = "init"
    /\ pc = [c \in Clients |-> "idle"]
    /\ request = [c \in Clients |-> NoRequest]
    /\ response = [c \in Clients |-> NoResponse]
    /\ call = NoCall
    /\ ret = None

\* startup_event, lines 80-84
StartupSentiment ==
    /\ startup = "init"
    /\ \A c \in Clients : pc[c] = "idle"
    /\ sentiment_pipeline' = Some("cardiffnlp/twitter-roberta-base-sentiment-latest")
    /\ startup' = "sentiment"
    /\ UNCHANGED <<emotion_pipeline, music_features, music_embeddings,
                   pc, request, response, call, ret>>

\* startup_event, lines 87-91
StartupEmotion ==
    /\ startup = "sentiment"
    /\ emotion_pipeline' = Some("j-hartmann/emotion-english-distilroberta-base")
    /\ startup' = "emotion"
    /\ UNCHANGED <<sentiment_pipeline, music_features, music_embeddings,
                   pc, request, response, call, ret>>

\* startup_event, lines 95-98
StartupMusic ==
    /\ startup = "emotion"
    /\ \E catalog \in Catalogs :
          /\ music_features' = Some(catalog)
          /\ music_embeddings' = Some(compute_music_embeddings(catalog))
    /\ startup' = "done"
    /\ UNCHANGED <<sentiment_pipeline, emotion_pipeline,
                   pc, request, response, call, ret>>

\* startup_event, lines 100-102: a load raises, the service does not come up
StartupFail ==
    /\ startup \in {"init", "sentiment", "emotion"}
    /\ \A c \in Clients : pc[c] = "idle"
    /\ startup' = "failed"
    /\ UNCHANGED <<sentiment_pipeline, emotion_pipeline, music_features,
                   music_embeddings, pc, request, response, call, ret>>

\* A handler can be invoked before startup_event has run, or after it finished.
Serving == startup \in {"init", "done"}

Arrive(c, req) ==
    /\ Serving
    /\ pc[c] = "idle"
    /\ request' = [request EXCEPT ![c] = req]
    /\ pc' = [pc EXCEPT ![c] = "called"]
    /\ UNCHANGED <<globals, startup, response, call, ret>>

RequestText(c) ==
    /\ pc[c] = "idle"
    /\ \E text \in Texts :
          Arrive(c, [op |-> "analyze_text_mood", text |-> text])

RequestAudio(c) ==
    /\ pc[c] = "idle"
    /\ \E features \in AudioInputs :
          Arrive(c, [op |-> "analyze_audio_mood", audio_features |-> features])

RequestRecommend(c) ==
    /\ pc[c] = "idle"
    /\ \E mood \in MoodInputs, limit \in Limits :
          Arrive(c, [op |-> "recommend_music", user_id |-> "u",
                     mood_emotions |-> mood, limit |-> limit])

Handle(c, op, outcome) ==
    /\ pc[c] = "called"
    /\ request[c].op = op
    /\ response' = [response EXCEPT ![c] = Respond(except_Exception(outcome))]
    /\ pc' = [pc EXCEPT ![c] = "done"]
    /\ UNCHANGED <<globals, startup, request, call, ret>>

\* lines 116-150
analyze_text_mood(c) ==
    /\ pc[c] = "called"
    /\ Handle(c, "analyze_text_mood", analyze_text_mood_body(request[c]))

\* lines 152-173
analyze_audio_mood(c) ==
    /\ pc[c] = "called"
    /\ Handle(c, "analyze_audio_mood", analyze_audio_mood_body(request[c]))

\* recommend_music keeping the catalog in ranked order: it re-inserts the rows of
\* music_features in the order of the ranking it computed
recommend_music_reorders(c) ==
    /\ pc[c] = "called"
    /\ request[c].op = "recommend_music"
    /\ response' = [response EXCEPT
                       ![c] = Respond(except_Exception(recommend_music_body(request[c])))]
    /\ pc' = [pc EXCEPT ![c] = "done"]
    /\ music_features' =
           IF music_features = None \/ request[c].mood_emotions = <<>>
           THEN music_features
           ELSE LET ranked ==
                        get_mood_based_recommendations(
                            request[c].mood_emotions, Len(Val(music_features))).value
                IN  Some([i \in 1..Len(ranked) |->
                             <<ranked[i].track_id,
                               GetItem(Val(music_features), ranked[i].track_id)>>])
    /\ UNCHANGED <<sentiment_pipeline, emotion_pipeline, music_embeddings,
                   startup, request, call, ret>>

\* lines 175-196
recommend_music(c) ==
    /\ pc[c] = "called"
    /\ Handle(c, "recommend_music", recommend_music_body(request[c]))

\* the client takes its response
Receive(c) ==
    /\ pc[c] = "done"
    /\ pc' = [pc EXCEPT ![c] = "idle"]
    /\ request' = [request EXCEPT ![c] = NoRequest]
    /\ response' = [response EXCEPT ![c] = NoResponse]
    /\ UNCHANGED <<globals, startup, call, ret>>

Next ==
    \/ StartupSentiment
    \/ StartupEmotion
    \/ StartupMusic
    \/ StartupFail
    \/ \E c \in Clients : RequestText(c)
    \/ \E c \in Clients : RequestAudio(c)
    \/ \E c \in Clients : RequestRecommend(c)
    \/ \E c \in Clients : analyze_text_mood(c)
    \/ \E c \in Clients : analyze_audio_mood(c)
    \/ \E c \in Clients : recommend_music(c)
    \/ \E c \in Clients : Receive(c)

Spec == Init /\ [][Next]_vars

-----------------------------------------------------------------------------
(* Direct calls of the pure functions, over bounded inputs *)

DefaultLimit == 10

MaxLabels == 2

ProbSteps == 2

ConfSteps == 10

FeatSteps == 4

Labels ==
    {"anger", "disgust", "fear", "joy", "love", "neutral", "optimism", "sadness",
     "surprise"}

\* the labels combine_emotion_sentiment boosts, and one it never does
FusionLabels == {"joy", "love", "optimism", "sadness", "anger", "fear", "neutral"}

ProbGrid == {Rat(k, ProbSteps) : k \in 0..ProbSteps}

\* the dicts of n entries with distinct labels
DictsOfLen(n) ==
    {d \in [1..n -> FusionLabels \X ProbGrid] :
        \A i, j \in 1..n : i # j => d[i][1] # d[j][1]}

EmotionDicts == UNION {DictsOfLen(n) : n \in 0..MaxLabels}

SentimentValues == {Threshold, Rat(7, 10)}

SentimentDicts ==
    {<<>>} \cup
    {<< <<"POSITIVE", p>> >> : p \in SentimentValues} \cup
    {<< <<"NEGATIVE", n>> >> : n \in SentimentValues} \cup
    {<< <<"NEGATIVE", n>>, <<"POSITIVE", p>> >> :
        n \in SentimentValues, p \in SentimentValues}

\* the service is not running while a function is called directly
Quiet ==
    /\ sentiment_pipeline = None
    /\ emotion_pipeline = None
    /\ startup = "init"
    /\ pc = [c \in Clients |-> "idle"]
    /\ request = [c \in Clients |-> NoRequest]
    /\ response = [c \in Clients |-> NoResponse]
    /\ ret = None

InitFusion ==
    /\ Quiet
    /\ music_features = None
    /\ music_embeddings = None
    /\ \E emotions \in EmotionDicts, sentiment \in SentimentDicts :
          call = [fn |-> "combine_emotion_sentiment",
                  emotions |-> emotions, sentiment |-> sentiment]

CallCombine ==
    /\ call.fn = "combine_emotion_sentiment"
    /\ ret = None
    /\ LET out == combine_emotion_sentiment(call.emotions, call.sentiment)
       IN  /\ call' = [call EXCEPT !.emotions = out.emotions]
           /\ ret' = Some(out.result)
    /\ UNCHANGED <<globals, startup, pc, request, response>>

SpecFusion == InitFusion /\ [][CallCombine]_vars

ConfGrid == {Rat(k, ConfSteps) : k \in (-ConfSteps)..(2 * ConfSteps)}

InitMood ==
    /\ Quiet
    /\ music_features = None
    /\ music_embeddings = None
    /\ \E emotion \in Labels, confidence \in ConfGrid :
          call = [fn |-> "emotion_to_mood_score",
                  emotion |-> emotion, confidence |-> confidence]

CallMoodScore ==
    /\ call.fn = "emotion_to_mood_score"
    /\ ret = None
    /\ ret' = Some(emotion_to_mood_score(call.emotion, call.confidence))
    /\ UNCHANGED <<globals, startup, pc, request, response, call>>

SpecMood == InitMood /\ [][CallMoodScore]_vars

FeatGrid == {Rat(k, FeatSteps) : k \in 0..FeatSteps}

TagLists ==
    { <<>>,
      <<"calm", "peaceful">>,
      <<"energetic", "happy">>,
      <<"happy", "uplifting", "energetic">>,
      <<"calm", "calm", "melancholic">>,
      <<"neutral", "romantic">> }

InitScore ==
    /\ Quiet
    /\ \E tags \in TagLists, valence \in FeatGrid, energy \in FeatGrid :
          LET catalog ==
                  << <<"sample_track_1",
                       Track("sample_track_1", "Calm Song", "Artist 1", <<"ambient">>,
                             tags, 60, valence, energy, Rat(1, 2))>> >>
          IN  /\ music_features = Some(catalog)
              /\ music_embeddings = Some(compute_music_embeddings(catalog))
    /\ \E emotion \in Labels :
          call = [fn |-> "get_mood_based_recommendations",
                  mood_emotions |-> << <<emotion, One>> >>,
                  limit |-> DefaultLimit]

CallRecommend ==
    /\ call.fn = "get_mood_based_recommendations"
    /\ ret = None
    /\ ret' = Some(get_mood_based_recommendations(call.mood_emotions, call.limit))
    /\ UNCHANGED <<globals, startup, pc, request, response, call>>

SpecScore == InitScore /\ [][CallRecommend]_vars

-----------------------------------------------------------------------------
(* Vocabulary of the properties *)

\* the labels in ascending lexicographic order
LabelOrder ==
    <<"anger", "disgust", "fear", "joy", "love", "neutral", "optimism", "sadness",
      "surprise">>

LexRank(label) == CHOOSE i \in 1..Len(LabelOrder) : LabelOrder[i] = label

\* the track ids in ascending order
TrackIdOrder == <<"sample_track_1", "sample_track_2">>

TrackRank(id) == CHOOSE i \in 1..Len(TrackIdOrder) : TrackIdOrder[i] = id

Leq(a, b) == ~Lt(b, a)

RECURSIVE Total(_)
Total(d) == IF d = <<>> THEN Zero ELSE Add(Head(d)[2], Total(Tail(d)))

\* label k has the maximum value of d and is the lexicographically smallest such label
LexSmallestMaximum(d, k) ==
    /\ HasKey(d, k)
    /\ \A i \in 1..Len(d) : Leq(d[i][2], GetItem(d, k))
    /\ \A i \in 1..Len(d) : d[i][2] = GetItem(d, k) => LexRank(k) <= LexRank(d[i][1])

Finished(c, op) == pc[c] = "done" /\ request[c].op = op

Succeeded(c, op) == Finished(c, op) /\ response[c].status = 200

CatalogLoaded == music_features # None /\ music_embeddings # None

-----------------------------------------------------------------------------
\* C1: the list a recommend request returns is sorted by score descending, and
\* two returned entries with equal score appear in ascending track_id order.
C1_SortedTiesByTrackId ==
    \A c \in Clients :
        Succeeded(c, "recommend_music") =>
            LET r == response[c].body.recommendations
            IN  \A i, j \in 1..Len(r) :
                    i < j =>
                        /\ Leq(r[j].score, r[i].score)
                        /\ r[i].score = r[j].score =>
                               TrackRank(r[i].track_id) < TrackRank(r[j].track_id)

\* C2: for every integer limit, recommend never returns more than limit entries,
\* and with a non-empty catalog it returns exactly min(limit, catalogSize) entries.
C2_AtMostLimitEntries ==
    \A c \in Clients :
        Succeeded(c, "recommend_music") =>
            LET r == response[c].body.recommendations
                n == Len(Val(music_features))
                limit == request[c].limit
            IN  /\ Len(r) <= limit
                /\ n > 0 => Len(r) = (IF limit < n THEN limit ELSE n)

\* C3: analyze_text_mood without a loaded classifier pipeline, and recommend_music
\* without a loaded catalog, answer with the service-unavailable status 503.
C3_UnavailableIs503 ==
    \A c \in Clients :
        /\ (Finished(c, "analyze_text_mood")
              /\ (emotion_pipeline = None \/ sentiment_pipeline = None))
           => response[c].status = 503
        /\ (Finished(c, "recommend_music") /\ ~CatalogLoaded)
           => response[c].status = 503

\* C4: a recommend request with limit <= 0 is rejected with an error; it never
\* yields a list of recommendations as a successful result.
C4_NonPositiveLimitRejected ==
    \A c \in Clients :
        (Finished(c, "recommend_music") /\ request[c].limit <= 0)
            => response[c].status # 200

\* C5: in the three places that pick it, the dominant emotion is a label of
\* maximum value, the lexicographically smallest one when several share the
\* maximum, and the confidence is that label's value.
C5_DominantIsLexSmallestMaximum ==
    \A c \in Clients :
        /\ Succeeded(c, "analyze_text_mood") =>
              LET b == response[c].body
              IN  /\ LexSmallestMaximum(b.emotions, b.dominant_emotion)
                  /\ b.confidence = GetItem(b.emotions, b.dominant_emotion)
        /\ Succeeded(c, "analyze_audio_mood") =>
              LET b == response[c].body
              IN  /\ LexSmallestMaximum(b.emotions, b.dominant_emotion)
                  /\ b.confidence = GetItem(b.emotions, b.dominant_emotion)
        /\ Succeeded(c, "recommend_music") =>
              LET r == response[c].body.recommendations
              IN  \A i \in 1..Len(r) :
                      LexSmallestMaximum(request[c].mood_emotions, r[i].reason.emotion)

\* the unnormalized values of section 4.3 for a descriptor
AudioRaw(features) ==
    LET valence == Get(features, "valence", Rat(1, 2))
        energy == Get(features, "energy", Rat(1, 2))
        danceability == Get(features, "danceability", Rat(1, 2))
    IN  << <<"joy", Add(valence, Mul(Rat(3, 10), danceability))>>,
           <<"sadness", Sub(One, valence)>>,
           <<"anger", Mul(Rat(7, 10), energy)>>,
           <<"fear", Mul(Rat(3, 10), energy)>> >>

\* C6: audio_features_to_emotions returns a distribution over joy, sadness, anger
\* and fear that sums to 1: the raw values divided by their sum, and 0.25 per
\* label when that sum is 0.
C6_AudioDistributionSumsToOne ==
    \A c \in Clients :
        Succeeded(c, "analyze_audio_mood") =>
            LET e == response[c].body.emotions
                raw == AudioRaw(request[c].audio_features)
            IN  /\ KeySet(e) = {"joy", "sadness", "anger", "fear"}
                /\ Total(e) = One
                /\ Total(raw) = Zero => \A i \in 1..Len(e) : e[i][2] = Rat(1, 4)
                /\ Total(raw) # Zero =>
                       \A i \in 1..Len(raw) :
                           GetItem(e, raw[i][1]) = Div(raw[i][2], Total(raw))

-----------------------------------------------------------------------------
(* combine_emotion_sentiment *)

PositiveBoost(sentiment) == Gt(Get(sentiment, "POSITIVE", Zero), Rat(1, 2))

NegativeBoost(sentiment) ==
    ~PositiveBoost(sentiment) /\ Gt(Get(sentiment, "NEGATIVE", Zero), Rat(1, 2))

\* the factor section 4.1 applies to a label
Weight(label, sentiment) ==
    IF PositiveBoost(sentiment) /\ label \in {"joy", "love", "optimism"}
    THEN Rat(12, 10)
    ELSE IF NegativeBoost(sentiment) /\ label \in {"sadness", "anger", "fear"}
         THEN Rat(12, 10)
         ELSE One

Weighted(emotions, sentiment) ==
    [i \in 1..Len(emotions) |->
        <<emotions[i][1], Mul(Weight(emotions[i][1], sentiment), emotions[i][2])>>]

ValidDistribution(emotions) ==
    /\ \A i \in 1..Len(emotions) : Leq(Zero, emotions[i][2])
    /\ Gt(Total(emotions), Zero)

Fused(emotions, sentiment, result) ==
    LET w == Weighted(emotions, sentiment)
    IN  /\ Len(result) = Len(emotions)
        /\ KeySet(result) = KeySet(emotions)
        /\ Total(result) = One
        /\ \A i \in 1..Len(w) :
               Mul(GetItem(result, w[i][1]), Total(w)) = w[i][2]

\* C7: for an emotion distribution with non-negative values and positive total,
\* combine_emotion_sentiment applies at most one boost (x1.2 to joy/love/optimism
\* iff POSITIVE > 0.5, otherwise x1.2 to sadness/anger/fear iff NEGATIVE > 0.5),
\* returns a map over the same labels whose values sum to 1, and leaves the
\* caller's map unchanged.
C7_FusionOneBoostSumsToOne ==
    [][(/\ call.fn = "combine_emotion_sentiment"
        /\ ret = None
        /\ ret' # None
        /\ ValidDistribution(call.emotions))
       => (/\ call'.emotions = call.emotions
           /\ Fused(call.emotions, call.sentiment, Val(ret')))]_vars

\* a call where POSITIVE and NEGATIVE both exceed 0.5 and the map holds a positive
\* and a negative emotion: only the positive one is boosted
C7_Witness ==
    /\ call.fn = "combine_emotion_sentiment"
    /\ ret # None
    /\ call.sentiment = << <<"NEGATIVE", Rat(7, 10)>>, <<"POSITIVE", Rat(7, 10)>> >>
    /\ call.emotions = << <<"sadness", Rat(1, 2)>>, <<"joy", Rat(1, 2)>> >>
    /\ Val(ret) = << <<"sadness", Rat(5, 11)>>, <<"joy", Rat(6, 11)>> >>

-----------------------------------------------------------------------------
(* emotion_to_mood_score *)

BaseScore(label) ==
    CASE label = "joy" -> 9
      [] label = "love" -> 8
      [] label = "optimism" -> 7
      [] label = "surprise" -> 6
      [] label = "neutral" -> 5
      [] label = "sadness" -> 3
      [] label = "anger" -> 2
      [] label = "fear" -> 2
      [] OTHER -> 5

Clamp(x, lo, hi) == IF Lt(x, lo) THEN lo ELSE IF Gt(x, hi) THEN hi ELSE x

\* C8: for every label and every confidence in [0,1], emotion_to_mood_score
\* returns clamp(base + (confidence - 0.5) * 2, 1, 10) with base from the fixed
\* table (5 for any other label), a value within [1,10].
C8_MoodScoreFormula ==
    (/\ call.fn = "emotion_to_mood_score"
     /\ ret # None
     /\ Leq(Zero, call.confidence)
     /\ Leq(call.confidence, One))
    => /\ Val(ret) =
              Clamp(Add(Rat(BaseScore(call.emotion), 1),
                        Mul(Sub(call.confidence, Rat(1, 2)), Rat(2, 1))),
                    Rat(1, 1), Rat(10, 1))
       /\ Leq(Rat(1, 1), Val(ret))
       /\ Leq(Val(ret), Rat(10, 1))

\* an unlisted label at full confidence scores 5 + 1
C8_Witness ==
    /\ call.fn = "emotion_to_mood_score"
    /\ call.emotion = "disgust"
    /\ call.confidence = One
    /\ ret = Some(Rat(6, 1))

-----------------------------------------------------------------------------
(* Catalog scoring *)

TargetTags(label) ==
    CASE label = "joy" -> {"happy", "uplifting", "energetic"}
      [] label = "sadness" -> {"melancholic", "introspective", "calm"}
      [] label = "anger" -> {"calm", "peaceful", "meditative"}
      [] label = "fear" -> {"calm", "peaceful", "ambient"}
      [] label = "love" -> {"romantic", "warm", "uplifting"}
      [] label = "surprise" -> {"energetic", "uplifting", "happy"}
      [] OTHER -> {"neutral"}

AudioTerm(label, valence, energy) ==
    CASE label = "joy" -> Add(Mul(valence, Rat(3, 10)), Mul(energy, Rat(2, 10)))
      [] label = "sadness" ->
             Add(Mul(Sub(One, valence), Rat(3, 10)), Mul(Sub(One, energy), Rat(2, 10)))
      [] OTHER -> Zero

ExpectedScore(track_data, label) ==
    Add(Mul(Rat(1, 2),
            Rat(Cardinality(ToSet(track_data.mood_tags) \cap TargetTags(label)), 1)),
        AudioTerm(label, GetItem(track_data.audio_features, "valence"),
                  GetItem(track_data.audio_features, "energy")))

\* C9: for every track with valence and energy in [0,1] and every dominant
\* emotion, the score is 0.5 per mood tag shared with the target tags of the
\* dominant emotion, plus valence*0.3 + energy*0.2 for joy,
\* (1-valence)*0.3 + (1-energy)*0.2 for sadness and 0 otherwise; it is never
\* negative.
C9_ScoreFormula ==
    (call.fn = "get_mood_based_recommendations" /\ ret # None)
    => LET catalog == Val(music_features)
           dominant == call.mood_emotions[1][1]
           r == Val(ret)
       IN  /\ ~r.raised
           /\ Len(r.value) = Len(catalog)
           /\ \A i \in 1..Len(r.value) :
                  /\ r.value[i].score =
                         ExpectedScore(GetItem(catalog, r.value[i].track_id), dominant)
                  /\ Leq(Zero, r.value[i].score)

\* a sad mood against a track tagged calm twice and melancholic, valence 1/4 and
\* energy 1/2: two shared tags and the sadness audio term
C9_Witness ==
    /\ call.fn = "get_mood_based_recommendations"
    /\ ret # None
    /\ call.mood_emotions = << <<"sadness", One>> >>
    /\ Val(music_features)[1][2].mood_tags = <<"calm", "calm", "melancholic">>
    /\ GetItem(Val(music_features)[1][2].audio_features, "valence") = Rat(1, 4)
    /\ GetItem(Val(music_features)[1][2].audio_features, "energy") = Rat(1, 2)
    /\ Val(ret).value[1].score = Rat(53, 40)

-----------------------------------------------------------------------------
(* Concurrent requests *)

BodyOf(req) ==
    CASE req.op = "analyze_text_mood" -> analyze_text_mood_body(req)
      [] req.op = "analyze_audio_mood" -> analyze_audio_mood_body(req)
      [] req.op = "recommend_music" -> recommend_music_body(req)

\* the response of client c is the one its request gets from the globals as they are
AnsweredAsAlone(c) ==
    pc[c] = "done" => response[c] = Respond(except_Exception(BodyOf(request[c])))

\* C10: once startup has completed, no step of any request changes
\* music_features, music_embeddings, sentiment_pipeline or emotion_pipeline, and
\* under every interleaving each response is the one the request gets when it
\* runs alone against the same globals.
C10_RequestsDoNotInterfere ==
    /\ [][startup = "done" => globals' = globals]_vars
    /\ [](startup = "done" => \A c \in Clients : AnsweredAsAlone(c))

\* two requests in flight at once after startup, both answered
C10_Witness ==
    /\ startup = "done"
    /\ Succeeded(1, "recommend_music")
    /\ Len(response[1].body.recommendations) = 2
    /\ Succeeded(2, "analyze_text_mood")

=============================================================================
